---- MODULE Spec2Model ----
(***************************************************************************)
(* A model of the signal prototype: the heuristic summarisers of           *)
(* summarizer.py, the Summarizer service of summarization_service.py and   *)
(* the Aggregator of aggregator.py.                                        *)
(*                                                                         *)
(* Text is a sequence of characters, each character a one-character        *)
(* string, so that stripping, lower-casing, splitting and joining are      *)
(* computed and not assumed.                                               *)
(***************************************************************************)
EXTENDS Integers, Sequences, FiniteSets, TLC

(***************************************************************************)
(* Bounds of the model.                                                    *)
(***************************************************************************)
\* texts handed to the heuristics are concatenations of at most MaxTokens tokens
MaxTokens == 4
\* the sentence counts handed to the heuristics are 0..MaxK
MaxK == 3
\* a configuration file holds at most MaxCfgKeys keys
MaxCfgKeys == 2
\* a configured feed list holds at most MaxFeeds URLs
MaxFeeds == 2
\* the longest feed holds MaxEntries entries
MaxEntries == 6
\* contents handed to Summarizer.summarise are concatenations of at most
\* MaxContentTokens tokens
MaxContentTokens == 3

(***************************************************************************)
(* Python's str primitives, on sequences of characters.                    *)
(***************************************************************************)
\* None: a one-element sequence whose element is no character, so that it
\* differs from every string
None == <<"None">>

Whitespace == {" ", "\t", "\n", "\r"}

IsSpace(c) == c \in Whitespace

UpperLetters ==
  <<"A","B","C","D","E","F","G","H","I","J","K","L","M",
    "N","O","P","Q","R","S","T","U","V","W","X","Y","Z">>

LowerLetters ==
  <<"a","b","c","d","e","f","g","h","i","j","k","l","m",
    "n","o","p","q","r","s","t","u","v","w","x","y","z">>

LowerChar(c) ==
  IF \E i \in 1..26 : UpperLetters[i] = c
  THEN LowerLetters[CHOOSE i \in 1..26 : UpperLetters[i] = c]
  ELSE c

\* str.lower()
Lower(s) == [i \in 1..Len(s) |-> LowerChar(s[i])]

RECURSIVE LStrip(_)
LStrip(s) ==
  IF s = <<>> THEN s
  ELSE IF IsSpace(Head(s)) THEN LStrip(Tail(s)) ELSE s

RECURSIVE RStrip(_)
RStrip(s) ==
  IF s = <<>> THEN s
  ELSE IF IsSpace(s[Len(s)]) THEN RStrip(SubSeq(s, 1, Len(s) - 1)) ELSE s

\* str.strip()
Strip(s) == LStrip(RStrip(s))

RECURSIVE Join(_, _)
\* sep.join(parts)
Join(parts, sep) ==
  IF parts = <<>> THEN <<>>
  ELSE IF Len(parts) = 1 THEN parts[1]
  ELSE parts[1] \o sep \o Join(Tail(parts), sep)

RECURSIVE SplitWsFrom(_, _, _, _)
SplitWsFrom(s, i, cur, acc) ==
  IF i > Len(s) THEN (IF cur = <<>> THEN acc ELSE Append(acc, cur))
  ELSE IF IsSpace(s[i])
       THEN SplitWsFrom(s, i + 1, <<>>, IF cur = <<>> THEN acc ELSE Append(acc, cur))
       ELSE SplitWsFrom(s, i + 1, Append(cur, s[i]), acc)

\* str.split(): the maximal runs of non-whitespace characters
SplitWs(s) == SplitWsFrom(s, 1, <<>>, <<>>)

RECURSIVE SplitLinesFrom(_, _, _, _)
SplitLinesFrom(s, i, cur, acc) ==
  IF i > Len(s) THEN (IF cur = <<>> THEN acc ELSE Append(acc, cur))
  ELSE IF s[i] = "\r" /\ i < Len(s) /\ s[i + 1] = "\n"
       THEN SplitLinesFrom(s, i + 2, <<>>, Append(acc, cur))
  ELSE IF s[i] \in {"\n", "\r"}
       THEN SplitLinesFrom(s, i + 1, <<>>, Append(acc, cur))
       ELSE SplitLinesFrom(s, i + 1, Append(cur, s[i]), acc)

\* str.splitlines(): the lines without their line breaks; a final line break
\* opens no further line
SplitLines(s) == SplitLinesFrom(s, 1, <<>>, <<>>)

StartsWithAt(hay, needle, i) ==
  /\ i + Len(needle) - 1 <= Len(hay)
  /\ \A j \in 1..Len(needle) : hay[i + j - 1] = needle[j]

\* needle in hay
Contains(hay, needle) ==
  \E i \in 1..(Len(hay) + 1) : StartsWithAt(hay, needle, i)

\* seq[:n], for any integer n
SliceTo(s, n) ==
  IF n >= 0
  THEN SubSeq(s, 1, IF n < Len(s) THEN n ELSE Len(s))
  ELSE SubSeq(s, 1, IF Len(s) + n > 0 THEN Len(s) + n ELSE 0)

RECURSIVE SelectNonEmpty(_)
SelectNonEmpty(parts) ==
  IF parts = <<>> THEN <<>>
  ELSE IF Head(parts) = <<>> THEN SelectNonEmpty(Tail(parts))
       ELSE <<Head(parts)>> \o SelectNonEmpty(Tail(parts))

Digit == <<"1", "2", "3", "4", "5", "6", "7", "8", "9">>

\* str(n) for 0 <= n <= 99
Decimal(n) ==
  IF n = 0 THEN <<"0">>
  ELSE IF n < 10 THEN <<Digit[n]>>
  ELSE <<Digit[n \div 10]>> \o (IF n % 10 = 0 THEN <<"0">> ELSE <<Digit[n % 10]>>)

(***************************************************************************)
(* summarizer.py                                                           *)
(***************************************************************************)
IsTerminal(c) == c \in {".", "!", "?"}

RECURSIVE SkipSpaces(_, _)
\* the first index >= i of s that holds no whitespace
SkipSpaces(s, i) ==
  IF i <= Len(s) /\ IsSpace(s[i]) THEN SkipSpaces(s, i + 1) ELSE i

RECURSIVE ReSplitSentencesFrom(_, _, _, _)
ReSplitSentencesFrom(s, i, cur, acc) ==
  IF i > Len(s) THEN Append(acc, cur)
  ELSE IF IsSpace(s[i]) /\ i > 1 /\ IsTerminal(s[i - 1])
       THEN ReSplitSentencesFrom(s, SkipSpaces(s, i), <<>>, Append(acc, cur))
       ELSE ReSplitSentencesFrom(s, i + 1, Append(cur, s[i]), acc)

\* re.split(r'(?<=[.!?])\s+', s)
ReSplitSentences(s) == ReSplitSentencesFrom(s, 1, <<>>, <<>>)

\* ' '.join(text.strip().split())
Cleaned(text) == Join(SplitWs(Strip(text)), <<" ">>)

_split_sentences(text) == SelectNonEmpty(ReSplitSentences(Cleaned(text)))

\* summarize_general with the slice one sentence too long
summarize_general_one_more(text, max_sentences) ==
  LET sentences == _split_sentences(text)
  IN  IF Len(sentences) <= max_sentences
      THEN Strip(text)
      ELSE Join(SliceTo(sentences, max_sentences + 1), <<" ">>)

summarize_general(text, max_sentences) ==
  LET sentences == _split_sentences(text)
  IN  IF Len(sentences) <= max_sentences
      THEN Strip(text)
      ELSE Join(SliceTo(sentences, max_sentences), <<" ">>)

\* the list action_keywords; the four non-Latin characters are named by
\* their code points
action_keywords ==
  << <<"t","o","d","o">>,
     <<"t","o"," ","d","o">>,
     <<"a","c","t","i","o","n">>,
     <<"d","e","a","d","l","i","n","e">>,
     <<"d","u","e">>,
     <<"U+8BF7","U+529E","U+7406">>,
     <<"U+5F85","U+529E">> >>

\* "\n\nAction items:\n"
ActionItemsHeader ==
  <<"\n","\n","A","c","t","i","o","n"," ","i","t","e","m","s",":","\n">>

RECURSIVE CollectActionsCaseSensitive(_)
\* CollectActions matching the keywords against the line as written
CollectActionsCaseSensitive(lines) ==
  IF lines = <<>> THEN <<>>
  ELSE LET line == Head(lines)
           cleaned_line == Strip(line)
       IN  IF /\ \E n \in 1..Len(action_keywords) : Contains(line, action_keywords[n])
              /\ cleaned_line # <<>>
           THEN <<cleaned_line>> \o CollectActionsCaseSensitive(Tail(lines))
           ELSE CollectActionsCaseSensitive(Tail(lines))

RECURSIVE CollectActions(_)
\* the loop over text.splitlines() that fills actions
CollectActions(lines) ==
  IF lines = <<>> THEN <<>>
  ELSE LET line == Head(lines)
           lower == Lower(line)
           cleaned_line == Strip(line)
       IN  IF /\ \E n \in 1..Len(action_keywords) : Contains(lower, action_keywords[n])
              /\ cleaned_line # <<>>
           THEN <<cleaned_line>> \o CollectActions(Tail(lines))
           ELSE CollectActions(Tail(lines))

summarize_email(text, max_sentences) ==
  LET overview == summarize_general(text, max_sentences)
      actions == CollectActions(SplitLines(text))
      actions_block == Join([i \in 1..Len(actions) |-> <<"-", " ">> \o actions[i]], <<"\n">>)
  IN  IF actions = <<>>
      THEN overview
      ELSE overview \o ActionItemsHeader \o actions_block

RECURSIVE SkipNewlines(_, _)
SkipNewlines(s, i) ==
  IF i <= Len(s) /\ s[i] = "\n" THEN SkipNewlines(s, i + 1) ELSE i

RECURSIVE ReSplitSectionsFrom(_, _, _, _)
ReSplitSectionsFrom(s, i, cur, acc) ==
  IF i > Len(s) THEN Append(acc, cur)
  ELSE IF s[i] = "\n" /\ i < Len(s) /\ s[i + 1] = "\n"
       THEN ReSplitSectionsFrom(s, SkipNewlines(s, i), <<>>, Append(acc, cur))
       ELSE ReSplitSectionsFrom(s, i + 1, Append(cur, s[i]), acc)

\* re.split(r'\n{2,}', s)
ReSplitSections(s) == ReSplitSectionsFrom(s, 1, <<>>, <<>>)

\* Sections that keeps the sections that are empty once stripped
SectionsKeepingEmpty(text) ==
  LET raw == ReSplitSections(text)
  IN  [i \in 1..Len(raw) |-> Strip(raw[i])]

\* [section.strip() for section in re.split(...) if section.strip()]
Sections(text) ==
  LET raw == ReSplitSections(text)
  IN  SelectNonEmpty([i \in 1..Len(raw) |-> Strip(raw[i])])

\* "Section "
SectionWord == <<"S","e","c","t","i","o","n"," ">>

summarize_report(text, max_sentences_per_section) ==
  LET sections == Sections(text)
      summaries ==
        [idx \in 1..Len(sections) |->
           SectionWord \o Decimal(idx) \o <<":", " ">>
             \o summarize_general(sections[idx], max_sentences_per_section)]
  IN  Join(summaries, <<"\n", "\n">>)

(***************************************************************************)
(* The inputs of the heuristics.                                           *)
(***************************************************************************)
Tokens ==
  { <<"a", ".">>, <<"b", "!", " ">>, <<" ">>, <<"\n">>,
    <<"d", "u", "e">>, <<"D", "u", "e">> }

RECURSIVE TokenTexts(_)
\* the concatenations of at most n tokens
TokenTexts(n) ==
  IF n = 0 THEN { <<>> }
  ELSE LET shorter == TokenTexts(n - 1)
       IN  shorter \cup { t \o tok : t \in shorter, tok \in Tokens }

Texts == TokenTexts(MaxTokens)

Ks == 0..MaxK

(***************************************************************************)
(* summarization_service.py                                                *)
(***************************************************************************)
General == <<"g","e","n","e","r","a","l">>
News == <<"n","e","w","s">>
Email == <<"e","m","a","i","l">>
Report == <<"r","e","p","o","r","t">>

OpenAI == <<"o","p","e","n","a","i">>
DeepSeek == <<"d","e","e","p","s","e","e","k">>
Qwen == <<"q","w","e","n">>
Gemini == <<"g","e","m","i","n","i">>
\* a _summarise_with_ext method that a subclass of Summarizer adds
Ext == <<"e","x","t">>

\* the identifiers b for which getattr(self, "_summarise_with_" + b) is callable
RegisteredBackends == {OpenAI, DeepSeek, Qwen, Gemini, Ext}

\* a capability that raises an Exception, as a result of calling it
Raise == <<"raise">>

\* a summary an external model returns
AISummary == <<"A","I">>

\* what calling the capability registered under backend_name can give
CapabilityResults(backend_name) ==
  IF backend_name = OpenAI THEN {None, <<>>, AISummary}
  ELSE IF backend_name \in {DeepSeek, Qwen} THEN {None}
  ELSE IF backend_name = Gemini THEN {None, <<>>, AISummary}
  ELSE IF backend_name = Ext THEN {Raise, None, <<>>, <<" ">>, AISummary}
  ELSE {None}

\* bool(v) of an optional string
Truthy(v) == v # None /\ v # <<>>

Return(v) == [raised |-> FALSE, value |-> v]

Raised == [raised |-> TRUE, value |-> None]

\* _backend_dispatch without its try/except
_backend_dispatch_uncaught(backend_name, called) ==
  IF backend_name \notin RegisteredBackends THEN Return(None)
  ELSE IF called = Raise THEN Raised
  ELSE Return(called)

\* method(content, ctype) gives called
_backend_dispatch(backend_name, called) ==
  IF backend_name \notin RegisteredBackends THEN Return(None)
  ELSE IF called = Raise THEN Return(None)
  ELSE Return(called)

\* summarise that lower-cases content_type and does not trim it
summarise_untrimmed(content, ctype_arg, backend_arg, called) ==
  LET ctype == Lower(IF Truthy(ctype_arg) THEN ctype_arg ELSE General)
      heuristic ==
        IF ctype = News THEN summarize_general(content, 3)
        ELSE IF ctype = Email THEN summarize_email(content, 2)
        ELSE IF ctype = Report THEN summarize_report(content, 2)
        ELSE summarize_general(content, 3)
  IN  IF Truthy(backend_arg)
      THEN LET backend_name == Strip(Lower(backend_arg))
               summary == _backend_dispatch(backend_name, called)
           IN  IF summary.raised THEN Raised
               ELSE IF Truthy(summary.value) THEN Return(summary.value)
               ELSE Return(heuristic)
      ELSE Return(heuristic)

\* called: what the capability gives if summarise invokes it
summarise(content, ctype_arg, backend_arg, called) ==
  LET ctype == Strip(Lower(IF Truthy(ctype_arg) THEN ctype_arg ELSE General))
      heuristic ==
        IF ctype = News THEN summarize_general(content, 3)
        ELSE IF ctype = Email THEN summarize_email(content, 2)
        ELSE IF ctype = Report THEN summarize_report(content, 2)
        ELSE summarize_general(content, 3)
  IN  IF Truthy(backend_arg)
      THEN LET backend_name == Strip(Lower(backend_arg))
               summary == _backend_dispatch(backend_name, called)
           IN  IF summary.raised THEN Raised
               ELSE IF Truthy(summary.value) THEN Return(summary.value)
               ELSE Return(heuristic)
      ELSE Return(heuristic)

(***************************************************************************)
(* The inputs of Summarizer.summarise.                                     *)
(***************************************************************************)
\* the calls a request makes, in the order it makes them: of a capability,
\* or of a heuristic with its number of sentences
BackendCall(backend_name) ==
  [kind |-> "backend", name |-> backend_name, sentences |-> 0]

HeuristicCall(strategy, n) ==
  [kind |-> "heuristic", name |-> strategy, sentences |-> n]

\* the calls _backend_dispatch makes
_backend_dispatch_calls(backend_name) ==
  IF backend_name \notin RegisteredBackends THEN <<>>
  ELSE <<BackendCall(backend_name)>>

\* summarise that asks the backend a second time after a miss
summarise_calls_retrying(ctype_arg, backend_arg, called) ==
  LET ctype == Strip(Lower(IF Truthy(ctype_arg) THEN ctype_arg ELSE General))
      heuristic ==
        IF ctype = News THEN HeuristicCall(General, 3)
        ELSE IF ctype = Email THEN HeuristicCall(Email, 2)
        ELSE IF ctype = Report THEN HeuristicCall(Report, 2)
        ELSE HeuristicCall(General, 3)
  IN  IF Truthy(backend_arg)
      THEN LET backend_name == Strip(Lower(backend_arg))
               summary == _backend_dispatch(backend_name, called)
               attempt == _backend_dispatch_calls(backend_name)
           IN  IF summary.raised THEN attempt
               ELSE IF Truthy(summary.value) THEN attempt
               ELSE attempt \o attempt \o <<heuristic>>
      ELSE <<heuristic>>

\* the calls summarise makes; a heuristic is named by the content type it
\* serves: summarize_general, summarize_email or summarize_report
summarise_calls(ctype_arg, backend_arg, called) ==
  LET ctype == Strip(Lower(IF Truthy(ctype_arg) THEN ctype_arg ELSE General))
      heuristic ==
        IF ctype = News THEN HeuristicCall(General, 3)
        ELSE IF ctype = Email THEN HeuristicCall(Email, 2)
        ELSE IF ctype = Report THEN HeuristicCall(Report, 2)
        ELSE HeuristicCall(General, 3)
  IN  IF Truthy(backend_arg)
      THEN LET backend_name == Strip(Lower(backend_arg))
               summary == _backend_dispatch(backend_name, called)
               attempt == _backend_dispatch_calls(backend_name)
           IN  IF summary.raised THEN attempt
               ELSE IF Truthy(summary.value) THEN attempt
               ELSE attempt \o <<heuristic>>
      ELSE <<heuristic>>

ContentTokens ==
  { <<"a", ".">>, <<"b", "!", " ">>, <<"D", "u", "e", "\n">>, <<"\n", "\n">> }

RECURSIVE ContentTexts(_)
\* the concatenations of at most n content tokens
ContentTexts(n) ==
  IF n = 0 THEN { <<>> }
  ELSE LET shorter == ContentTexts(n - 1)
       IN  shorter \cup { t \o tok : t \in shorter, tok \in ContentTokens }

Contents == ContentTexts(MaxContentTokens)

ContentTypes ==
  { None, <<>>, <<" ">>, General, News, Email, Report,
    <<" ","E","m","a","i","l","\n">>, <<"R","E","P","O","R","T"," ">>,
    <<"m","e","m","o">> }

BackendIds ==
  { None, <<>>, <<" ">>, OpenAI, DeepSeek, Qwen, Gemini, Ext,
    <<" ","O","p","e","n","A","I">>, <<"E","X","T","\n">>,
    <<"b","o","g","u","s">> }

(***************************************************************************)
(* aggregator.py                                                           *)
(***************************************************************************)
RssFeeds == <<"r","s","s","_","f","e","e","d","s">>
Factiva == <<"f","a","c","t","i","v","a">>
Euromonitor == <<"e","u","r","o","m","o","n","i","t","o","r">>
Financial == <<"f","i","n","a","n","c","i","a","l">>

Builtins == <<News, Email, Report>>

\* the tuple ("factiva", "euromonitor", "financial")
Placeholders == <<Factiva, Euromonitor, Financial>>

\* JSON values: a boolean, a list of strings, or a non-empty string
JBool(b) == [type |-> "bool", b |-> b, l |-> <<>>]
JList(l) == [type |-> "list", b |-> FALSE, l |-> l]
JStr == [type |-> "str", b |-> FALSE, l |-> <<>>]

\* bool(v)
PyBool(v) ==
  IF v.type = "bool" THEN v.b
  ELSE IF v.type = "list" THEN v.l # <<>>
  ELSE TRUE

\* dict.get(key, default) of a dict held as a function
DictGet(d, key, default) == IF key \in DOMAIN d THEN d[key] ELSE default

\* d[key] = value of a dict held as a function
DictPut(d, key, value) ==
  [x \in (DOMAIN d) \cup {key} |-> IF x = key THEN value ELSE d[x]]

EmptyDict == [x \in {} |-> JStr]

\* the keys, in insertion order, of a dict held as a sequence of <<key, value>>
Keys(od) == [i \in 1..Len(od) |-> od[i][1]]

HasKey(od, key) == \E i \in 1..Len(od) : od[i][1] = key

ValueOf(od, key) == od[CHOOSE i \in 1..Len(od) : od[i][1] = key][2]

\* od[key] = value: a new key goes last, a present key keeps its place
OrderedPut(od, key, value) ==
  IF HasKey(od, key)
  THEN [i \in 1..Len(od) |-> IF od[i][1] = key THEN <<key, value>> ELSE od[i]]
  ELSE Append(od, <<key, value>>)

\* the configuration file: absent, not JSON, JSON that is no object, or a
\* JSON object held as its <<key, value>> pairs in file order
AbsentFile == [kind |-> "absent", data |-> <<>>]
InvalidFile == [kind |-> "invalid", data |-> <<>>]
NonObjectFile == [kind |-> "nonobject", data |-> <<>>]
ObjectFile(data) == [kind |-> "object", data |-> data]

\* {"news": True, "email": True, "report": True, "rss_feeds": []}
DefaultData ==
  << <<News, JBool(TRUE)>>, <<Email, JBool(TRUE)>>, <<Report, JBool(TRUE)>>,
     <<RssFeeds, JList(<<>>)>> >>

RECURSIVE Normalise(_, _)
\* the loop "for key, value in data.items(): normalised[key.lower()] = value"
Normalise(data, normalised) ==
  IF data = <<>> THEN normalised
  ELSE Normalise(Tail(data), DictPut(normalised, Lower(Head(data)[1]), Head(data)[2]))

\* self._config: None, or the cached dict
NoConfig == [loaded |-> FALSE, dict |-> EmptyDict]
Cached(d) == [loaded |-> TRUE, dict |-> d]

\* _load_config falling back to the default on a file that is not JSON
_load_config_defaulting(self_config, config_file) ==
  IF self_config.loaded THEN [error |-> "none", config |-> self_config]
  ELSE IF config_file.kind = "nonobject"
       THEN [error |-> "AttributeError", config |-> self_config]
  ELSE LET data == IF config_file.kind = "object" THEN config_file.data ELSE DefaultData
       IN  [error |-> "none", config |-> Cached(Normalise(data, EmptyDict))]

\* _load_config without the test of self._config
_load_config_uncached(self_config, config_file) ==
  IF config_file.kind = "invalid"
  THEN [error |-> "ValueError", config |-> self_config]
  ELSE IF config_file.kind = "nonobject"
       THEN [error |-> "AttributeError", config |-> self_config]
  ELSE LET data == IF config_file.kind = "absent" THEN DefaultData ELSE config_file.data
       IN  [error |-> "none", config |-> Cached(Normalise(data, EmptyDict))]

\* gives the error raised ("none" when it returns) and self._config afterwards
_load_config(self_config, config_file) ==
  IF self_config.loaded THEN [error |-> "none", config |-> self_config]
  ELSE IF config_file.kind = "invalid"
       THEN [error |-> "ValueError", config |-> self_config]
  ELSE IF config_file.kind = "nonobject"
       THEN [error |-> "AttributeError", config |-> self_config]
  ELSE LET data == IF config_file.kind = "absent" THEN DefaultData ELSE config_file.data
       IN  [error |-> "none", config |-> Cached(Normalise(data, EmptyDict))]

\* the sample files
SampleText(key) ==
  IF key = News THEN <<"a","."," ","b","!"," ","a","."," ","b","!">>
  ELSE IF key = Email THEN <<"a","."," ","b","!"," ","a",".","\n","D","u","e"," ","a",".">>
  ELSE <<"a","."," ","b","!"," ","a",".","\n","\n","b","!"," ","a",".">>

\* present: the sample files that exist
_read_sample(key, present) == IF key \in present THEN SampleText(key) ELSE <<>>

\* feed.entries[:5]
FeedEntryLimit == 5

\* the feeds of the model's web, each named by what it is: one that cannot
\* be fetched, one of two entries, and one of MaxEntries entries, of which
\* the second lacks a summary, the third a title and the fourth both
BadUrl == "bad"
Ok2Url == "ok2"
BigUrl == "big"

Urls == {BadUrl, Ok2Url, BigUrl}

UrlChar(url) == IF url = Ok2Url THEN "o" ELSE "g"

Entry(url, i) ==
  [title |-> IF url = BigUrl /\ i \in {3, 4} THEN None
             ELSE <<"T", UrlChar(url)>> \o Decimal(i),
   summary |-> IF url = BigUrl /\ i \in {2, 4} THEN None
               ELSE <<"S", UrlChar(url)>> \o Decimal(i)]

\* feedparser.parse(url): whether it raises, and the entries it gives
Parse(url) ==
  IF url = BadUrl THEN [fails |-> TRUE, entries |-> <<>>]
  ELSE IF url = Ok2Url
       THEN [fails |-> FALSE, entries |-> [i \in 1..2 |-> Entry(url, i)]]
  ELSE [fails |-> FALSE, entries |-> [i \in 1..MaxEntries |-> Entry(url, i)]]

\* getattr(entry, name, "")
AttrOrEmpty(v) == IF v = None THEN <<>> ELSE v

\* f"{title} {summary}"
Render(entry) == AttrOrEmpty(entry.title) \o <<" ">> \o AttrOrEmpty(entry.summary)

\* FetchOne taking every entry of the feed
FetchOneUnlimited(url) ==
  LET feed == Parse(url)
  IN  IF feed.fails THEN <<>>
      ELSE [i \in 1..Len(feed.entries) |-> Render(feed.entries[i])]

\* one turn of "for url in rss_feeds": what the turn appends to articles
FetchOne(url) ==
  LET feed == Parse(url)
  IN  IF feed.fails THEN <<>>
      ELSE LET entries == SliceTo(feed.entries, FeedEntryLimit)
           IN  [i \in 1..Len(entries) |-> Render(entries[i])]

RECURSIVE FetchAllAborting(_)
\* FetchAll leaving the loop at the first feed that cannot be fetched
FetchAllAborting(rss_feeds) ==
  IF rss_feeds = <<>> THEN <<>>
  ELSE IF Parse(Head(rss_feeds)).fails THEN <<>>
  ELSE FetchOne(Head(rss_feeds)) \o FetchAllAborting(Tail(rss_feeds))

RECURSIVE FetchAll(_)
\* articles after the loop over rss_feeds
FetchAll(rss_feeds) ==
  IF rss_feeds = <<>> THEN <<>>
  ELSE FetchOne(Head(rss_feeds)) \o FetchAll(Tail(rss_feeds))

RECURSIVE ReadLocal(_, _, _)
\* the three "if bool(config.get(key, True))" steps, in their order
ReadLocal(keys, config, present) ==
  IF keys = <<>> THEN <<>>
  ELSE (IF PyBool(DictGet(config, Head(keys), JBool(TRUE)))
        THEN << <<Head(keys), _read_sample(Head(keys), present)>> >>
        ELSE <<>>)
       \o ReadLocal(Tail(keys), config, present)

\* the remote step: results after articles are merged into "news"
MergeFeeds(results, config, feedparser_ok) ==
  LET configured == DictGet(config, RssFeeds, JStr)
      rss_feeds == IF configured.type = "list" THEN configured.l ELSE <<>>
  IN  IF rss_feeds # <<>> /\ feedparser_ok
      THEN LET articles == FetchAll(rss_feeds)
               combined == Join(articles, <<"\n", "\n">>)
           IN  IF articles # <<>>
               THEN IF HasKey(results, News)
                    THEN OrderedPut(results, News,
                                    combined \o <<"\n", "\n">> \o ValueOf(results, News))
                    ELSE OrderedPut(results, News, combined)
               ELSE results
      ELSE results

RECURSIVE AddPlaceholders(_, _, _)
\* the loop over the placeholder keys
AddPlaceholders(keys, results, config) ==
  IF keys = <<>> THEN results
  ELSE AddPlaceholders(Tail(keys),
                       IF PyBool(DictGet(config, Head(keys), JBool(FALSE)))
                       THEN OrderedPut(results, Head(keys), <<>>)
                       ELSE results,
                       config)

\* collect() once the configuration is at hand
CollectFrom(config, present, feedparser_ok) ==
  AddPlaceholders(Placeholders,
                  MergeFeeds(ReadLocal(Builtins, config, present), config, feedparser_ok),
                  config)

\* collect(): the error raised ("none" when it returns), the mapping
\* returned and self._config afterwards
collect(self_config, config_file, present, feedparser_ok) ==
  LET loaded == _load_config(self_config, config_file)
  IN  IF loaded.error # "none"
      THEN [error |-> loaded.error, results |-> <<>>, config |-> loaded.config]
      ELSE [error |-> "none",
            results |-> CollectFrom(loaded.config.dict, present, feedparser_ok),
            config |-> loaded.config]

(***************************************************************************)
(* The configuration files and environments of the model.                  *)
(***************************************************************************)
\* the keys a configuration file may hold, in the order it holds them
RawKeys ==
  << News, <<"N","e","w","s">>, Email, Report, RssFeeds,
     Factiva, Euromonitor, Financial >>

FeedLists == UNION { [1..n -> Urls] : n \in 0..MaxFeeds }

ValuesFor(key) ==
  IF key = RssFeeds THEN { JList(l) : l \in FeedLists } \cup {JStr}
  ELSE {JBool(TRUE), JBool(FALSE)}

RECURSIVE DatasFrom(_, _)
\* the objects of at most n keys drawn from RawKeys[i], RawKeys[i+1], ...
DatasFrom(i, n) ==
  IF i > Len(RawKeys) \/ n = 0 THEN { <<>> }
  ELSE DatasFrom(i + 1, n)
       \cup { << <<RawKeys[i], v>> >> \o d : v \in ValuesFor(RawKeys[i]),
                                             d \in DatasFrom(i + 1, n - 1) }

FileDatas == DatasFrom(1, MaxCfgKeys)

\* the configuration files in the life of one Aggregator
LifeDatas ==
  { <<>>,
    << <<News, JBool(FALSE)>>, <<Email, JBool(FALSE)>>, <<Report, JBool(FALSE)>>,
       <<RssFeeds, JList(<<Ok2Url>>)>>, <<Financial, JBool(TRUE)>> >>,
    << <<(<<"N","e","w","s">>), JBool(FALSE)>>, <<RssFeeds, JList(<<BadUrl, BigUrl>>)>> >>,
    << <<Email, JBool(FALSE)>>, <<Factiva, JBool(TRUE)>>, <<Euromonitor, JBool(FALSE)>> >> }

\* the sets of sample files that may exist
SampleWorlds == SUBSET {News, Email, Report}

(***************************************************************************)
(* main.py                                                                 *)
(***************************************************************************)
\* what run() prints for one source: the warning of a source with no
\* content, or the summary; called is what the capability gave, if invoked
Warning(source_name) ==
  [source |-> source_name, warning |-> TRUE, called |-> None,
   raised |-> FALSE, summary |-> <<>>]

Summary(source_name, c, r) ==
  [source |-> source_name, warning |-> FALSE, called |-> c,
   raised |-> r.raised, summary |-> r.value]

\* one turn of the loop of run() over contents.items(); max_sentences is
\* args.max_sentences, args_backend is args.backend
RunItem(item, max_sentences, args_backend, c) ==
  LET source_name == item[1]
      item_text == item[2]
  IN  IF Strip(item_text) = <<>>
      THEN Warning(source_name)
      ELSE LET ctype == Lower(source_name)
               run_backend == IF Truthy(args_backend) THEN Lower(args_backend) ELSE None
           IN  IF run_backend = None
               THEN IF ctype = Email
                    THEN Summary(source_name, c, summarise(item_text, ctype, None, c))
                    ELSE IF ctype = Report
                    THEN Summary(source_name, c, summarise(item_text, ctype, None, c))
                    ELSE Summary(source_name, c, summarise(item_text, ctype, None, c))
               ELSE Summary(source_name, c, summarise(item_text, ctype, run_backend, c))

RECURSIVE RunLoop(_, _, _, _, _)
\* the loop of run() from the i-th item on; an exception ends it
RunLoop(contents, max_sentences, args_backend, cs, i) ==
  IF i > Len(contents) THEN <<>>
  ELSE LET line == RunItem(contents[i], max_sentences, args_backend, cs[i])
       IN  IF line.raised THEN <<line>>
           ELSE <<line>> \o RunLoop(contents, max_sentences, args_backend, cs, i + 1)

RECURSIVE CapabilityChoices(_, _, _)
\* what the capability may give in each turn of the loop from the i-th item
\* on: it is invoked for the sources that have content only
CapabilityChoices(contents, args_backend, i) ==
  IF i > Len(contents) THEN { <<>> }
  ELSE LET here ==
             IF Strip(contents[i][2]) = <<>> \/ ~Truthy(args_backend) THEN {None}
             ELSE CapabilityResults(Strip(Lower(args_backend)))
       IN  { <<c>> \o rest : c \in here,
                             rest \in CapabilityChoices(contents, args_backend, i + 1) }

\* the values of --backend
RunBackends ==
  { None, <<>>, <<"O","p","e","n","A","I">>, <<"b","o","g","u","s">> }

VARIABLES text, k, op, out, content_type, backend, called, raised,
          config_file, _config, results, error, samples, feedparser,
          printed, calls

heurVars == <<text, k, op, out>>

serviceVars == <<content_type, backend, called, raised, calls>>

aggVars == <<config_file, _config, results, error, samples, feedparser>>

runVars == <<printed>>

vars == <<text, k, op, out, content_type, backend, called, raised,
          config_file, _config, results, error, samples, feedparser,
          printed, calls>>

\* the Aggregator is not part of a run of the heuristics or of the service
AggIdle ==
  /\ config_file = AbsentFile
  /\ _config = NoConfig
  /\ results = <<>>
  /\ error = "none"
  /\ samples = {}
  /\ feedparser = FALSE

(***************************************************************************)
(* The heuristics applied to one text: each call leaves its result in out. *)
(***************************************************************************)
InitHeur ==
  /\ text \in Texts
  /\ k \in Ks
  /\ op = "none"
  /\ out = <<>>
  /\ content_type = None
  /\ backend = None
  /\ called = None
  /\ raised = FALSE
  /\ calls = <<>>
  /\ AggIdle
  /\ printed = <<>>

CallGeneral ==
  /\ op = "none"
  /\ out' = summarize_general(text, k)
  /\ op' = "general"
  /\ UNCHANGED <<text, k, serviceVars, aggVars, runVars>>

CallEmail ==
  /\ op = "none"
  /\ out' = summarize_email(text, k)
  /\ op' = "email"
  /\ UNCHANGED <<text, k, serviceVars, aggVars, runVars>>

CallReport ==
  /\ op = "none"
  /\ out' = summarize_report(text, k)
  /\ op' = "report"
  /\ UNCHANGED <<text, k, serviceVars, aggVars, runVars>>

\* a caller hands a general summary back to summarize_general
Resummarize ==
  /\ op = "general"
  /\ text' = out
  /\ op' = "none"
  /\ out' = <<>>
  /\ UNCHANGED <<k, serviceVars, aggVars, runVars>>

NextHeur == CallGeneral \/ CallEmail \/ CallReport \/ Resummarize

SpecHeur == InitHeur /\ [][NextHeur]_vars

(***************************************************************************)
(* One request to Summarizer.summarise: the request is drawn, then the     *)
(* call runs to its end; what the capability gives, if it is invoked, is   *)
(* the environment's choice.                                               *)
(***************************************************************************)
InitService ==
  /\ text \in Contents
  /\ content_type \in ContentTypes
  /\ backend \in BackendIds
  /\ k = 0
  /\ op = "none"
  /\ out = <<>>
  /\ called = None
  /\ raised = FALSE
  /\ calls = <<>>
  /\ AggIdle
  /\ printed = <<>>

Summarise ==
  /\ op = "none"
  /\ \E c \in CapabilityResults(IF Truthy(backend) THEN Strip(Lower(backend)) ELSE None) :
       LET r == summarise(text, content_type, backend, c)
       IN  /\ called' = c
           /\ raised' = r.raised
           /\ out' = r.value
           /\ calls' = summarise_calls(content_type, backend, c)
  /\ op' = "summarise"
  /\ UNCHANGED <<text, k, content_type, backend, aggVars, runVars>>

NextService == Summarise

SpecService == InitService /\ [][NextService]_vars

(***************************************************************************)
(* The life of one Aggregator: collect() is called any number of times    *)
(* while the configuration file is written, corrupted and removed around  *)
(* it.                                                                     *)
(***************************************************************************)
\* the Summarizer is not part of a run of the Aggregator
SummarizerIdle ==
  /\ text = <<>>
  /\ k = 0
  /\ out = <<>>
  /\ content_type = None
  /\ backend = None
  /\ called = None
  /\ raised = FALSE
  /\ calls = <<>>

Init ==
  /\ config_file \in {AbsentFile, InvalidFile, NonObjectFile}
                       \cup { ObjectFile(d) : d \in LifeDatas }
  /\ feedparser \in BOOLEAN
  /\ _config = NoConfig
  /\ results = <<>>
  /\ error = "none"
  /\ samples = {}
  /\ op = "none"
  /\ SummarizerIdle
  /\ printed = <<>>

Collect ==
  /\ \E present \in SampleWorlds :
       LET r == collect(_config, config_file, present, feedparser)
       IN  /\ samples' = present
           /\ error' = r.error
           /\ results' = r.results
           /\ _config' = r.config
  /\ op' = "collect"
  /\ UNCHANGED <<config_file, feedparser, text, k, out, serviceVars, runVars>>

DeleteConfigFile ==
  /\ config_file # AbsentFile
  /\ config_file' = AbsentFile
  /\ op' = "delete"
  /\ UNCHANGED <<_config, results, error, samples, feedparser, text, k, out, serviceVars, runVars>>

CorruptConfigFile ==
  /\ \E broken \in {InvalidFile, NonObjectFile} :
       /\ config_file # broken
       /\ config_file' = broken
  /\ op' = "corrupt"
  /\ UNCHANGED <<_config, results, error, samples, feedparser, text, k, out, serviceVars, runVars>>

WriteConfigFile ==
  /\ \E d \in LifeDatas :
       /\ config_file # ObjectFile(d)
       /\ config_file' = ObjectFile(d)
  /\ op' = "write"
  /\ UNCHANGED <<_config, results, error, samples, feedparser, text, k, out, serviceVars, runVars>>

Next == Collect \/ DeleteConfigFile \/ CorruptConfigFile \/ WriteConfigFile

Spec == Init /\ [][Next]_vars

(***************************************************************************)
(* One collect() of a fresh Aggregator, over every configuration file of   *)
(* at most MaxCfgKeys keys.                                                *)
(***************************************************************************)
InitCollect ==
  /\ config_file \in {AbsentFile, InvalidFile, NonObjectFile}
                       \cup { ObjectFile(d) : d \in FileDatas }
  /\ feedparser \in BOOLEAN
  /\ _config = NoConfig
  /\ results = <<>>
  /\ error = "none"
  /\ samples = {}
  /\ op = "none"
  /\ SummarizerIdle
  /\ printed = <<>>

CollectOnce ==
  /\ op = "none"
  /\ Collect

NextCollect == CollectOnce

SpecCollect == InitCollect /\ [][NextCollect]_vars

(***************************************************************************)
(* One run() of main.py: the arguments are parsed, a fresh Aggregator      *)
(* collects, and every source collected is summarised and printed. k is    *)
(* args.max_sentences and backend is args.backend.                         *)
(***************************************************************************)
InitRun ==
  /\ config_file \in {AbsentFile, InvalidFile, NonObjectFile}
                       \cup { ObjectFile(d) : d \in LifeDatas }
  /\ feedparser \in BOOLEAN
  /\ k \in Ks
  /\ backend \in RunBackends
  /\ _config = NoConfig
  /\ results = <<>>
  /\ error = "none"
  /\ samples = {}
  /\ op = "none"
  /\ text = <<>>
  /\ out = <<>>
  /\ content_type = None
  /\ called = None
  /\ raised = FALSE
  /\ calls = <<>>
  /\ printed = <<>>

Run ==
  /\ op = "none"
  /\ \E present \in SampleWorlds :
       LET r == collect(_config, config_file, present, feedparser)
       IN  /\ samples' = present
           /\ results' = r.results
           /\ _config' = r.config
           /\ \E cs \in CapabilityChoices(r.results, backend, 1) :
                LET lines == RunLoop(r.results, k, backend, cs, 1)
                IN  /\ printed' = lines
                    /\ error' = IF r.error # "none" THEN r.error
                                ELSE IF lines # <<>> /\ lines[Len(lines)].raised
                                     THEN "Exception"
                                     ELSE "none"
  /\ op' = "run"
  /\ UNCHANGED <<config_file, feedparser, text, k, out, serviceVars>>

NextRun == Run

SpecRun == InitRun /\ [][NextRun]_vars

(***************************************************************************)
(* The claims.                                                             *)
(***************************************************************************)
\* the backend attempt of the finished request gave no summary
BackendMiss ==
  \/ Strip(Lower(backend)) \notin RegisteredBackends
  \/ called = Raise
  \/ ~Truthy(called)

\* C1: summarise never raises, whatever the backend does; and when a backend
\* identifier is supplied and no capability is registered under it, or the
\* capability raises, or it gives an empty or missing result, summarise
\* returns what it returns for the same content and content_type with no
\* backend supplied.
C1_BackendFailureFallsBack ==
  op = "summarise" =>
    /\ ~raised
    /\ (Truthy(backend) /\ BackendMiss) =>
         out = summarise(text, content_type, None, None).value

\* a registered capability raised, and a non-empty heuristic summary came back
C1_Witness ==
  /\ op = "summarise"
  /\ Strip(Lower(backend)) = Ext
  /\ backend # Ext
  /\ called = Raise
  /\ ~raised
  /\ out # <<>>

\* the content types of the model that are "email", resp. "report", once
\* lower-cased and trimmed
EmailSpellings == { Email, <<" ","E","m","a","i","l","\n">> }
ReportSpellings == { Report, <<"R","E","P","O","R","T"," ">> }

\* C2: with no backend, or after a backend miss, summarise gives
\* summarize_email with 2 sentences for a content_type that is "email" once
\* lower-cased and trimmed, summarize_report with 2 sentences per section
\* for "report", and summarize_general with 3 sentences for every other
\* content_type: "news", "general", empty, missing, blank or unrecognized.
C2_HeuristicDispatch ==
  (op = "summarise" /\ (~Truthy(backend) \/ BackendMiss)) =>
    out = IF content_type \in EmailSpellings THEN summarize_email(text, 2)
          ELSE IF content_type \in ReportSpellings THEN summarize_report(text, 2)
          ELSE summarize_general(text, 3)

\* an "email" written with capitals and surrounding whitespace, on a content
\* of three sentences, one of them an action item
C2_Witness ==
  /\ op = "summarise"
  /\ ~Truthy(backend)
  /\ content_type = <<" ","E","m","a","i","l","\n">>
  /\ Len(_split_sentences(text)) >= 3
  /\ out # summarize_general(text, 3)
  /\ out # summarize_email(text, 3)

\* C3: when the text has at most k sentences, summarize_general(text, k)
\* returns the text unchanged, character for character, leading, trailing
\* and internal whitespace included.
C3_ShortTextVerbatim ==
  (op = "general" /\ Len(_split_sentences(text)) <= k) => out = text

\* C4: for k >= 1 and a text of more than k sentences, the summary
\* s = summarize_general(text, k) has at most k sentences and
\* summarize_general(s, k) = s.
C4_SummaryIdempotent ==
  (op = "general" /\ k >= 1 /\ Len(_split_sentences(text)) > k) =>
    /\ Len(_split_sentences(out)) <= k
    /\ summarize_general(out, k) = out

\* a text of more than k sentences whose whitespace the summary normalises
C4_Witness ==
  /\ op = "general"
  /\ k >= 2
  /\ Len(_split_sentences(text)) > k
  /\ Cleaned(text) # text
  /\ out # <<>>

\* a line holds one of the keywords, whatever its case
IsActionLine(line) ==
  \E n \in 1..Len(action_keywords) : Contains(Lower(line), action_keywords[n])

\* C10: summarize_email returns the general summary alone when no line of
\* the text holds a keyword, and otherwise the general summary, then
\* "\n\nAction items:\n", then one "- " line per line that holds a keyword,
\* trimmed, in the order of the text, and no other line.
C10_EmailActionItems ==
  op = "email" =>
    LET matching == SelectSeq(SplitLines(text), IsActionLine)
        bullets == [i \in 1..Len(matching) |-> <<"-", " ">> \o Strip(matching[i])]
    IN  out = IF matching = <<>>
              THEN summarize_general(text, k)
              ELSE summarize_general(text, k) \o ActionItemsHeader
                     \o Join(bullets, <<"\n">>)

\* a text with a line that holds a keyword in capitals behind whitespace and
\* a line that holds none
C10_Witness ==
  /\ op = "email"
  /\ LET lines == SplitLines(text)
     IN  /\ \E i \in 1..Len(lines) :
               /\ IsActionLine(lines[i])
               /\ ~(\E n \in 1..Len(action_keywords) : Contains(lines[i], action_keywords[n]))
               /\ Strip(lines[i]) # lines[i]
         /\ \E i \in 1..Len(lines) : ~IsActionLine(lines[i]) /\ Strip(lines[i]) # <<>>
  /\ Contains(out, ActionItemsHeader)

\* the configured feed list of the cached configuration, as collect() reads it
ConfiguredFeeds ==
  LET configured == DictGet(_config.dict, RssFeeds, JStr)
  IN  IF configured.type = "list" THEN configured.l ELSE <<>>

\* the cached configuration disables key: it holds key with a false value
Disables(key) ==
  key \in DOMAIN _config.dict /\ ~PyBool(_config.dict[key])

\* C5: the mapping collect() returns holds no key of a source that the
\* configuration disables; with news set to false it holds no "news" key,
\* whatever rss_feeds is.
C5_DisabledSourceAbsent ==
  (op = "collect" /\ error = "none") =>
    /\ \A i \in 1..Len(Builtins) : Disables(Builtins[i]) => ~HasKey(results, Builtins[i])
    /\ \A i \in 1..Len(Placeholders) :
         Disables(Placeholders[i]) => ~HasKey(results, Placeholders[i])

\* the rendering of the first five entries, at most, of a feed that can be
\* fetched, and nothing for one that cannot
RenderedEntries(url) ==
  LET feed == Parse(url)
      n == IF Len(feed.entries) < 5 THEN Len(feed.entries) ELSE 5
  IN  IF feed.fails THEN <<>>
      ELSE [j \in 1..n |->
              (IF feed.entries[j].title = None THEN <<>> ELSE feed.entries[j].title)
                \o <<" ">>
                \o (IF feed.entries[j].summary = None THEN <<>> ELSE feed.entries[j].summary)]

RECURSIVE RenderedFeeds(_, _)
\* the renderings of feeds[1..n], in feed-list order, then entry order
RenderedFeeds(feeds, n) ==
  IF n = 0 THEN <<>>
  ELSE RenderedFeeds(feeds, n - 1) \o RenderedEntries(feeds[n])

Fetchable(url) == ~Parse(url).fails

\* C7: a feed that cannot be fetched does not make collect() raise, and the
\* mapping returned is the one that the same configuration gives with the
\* feeds that cannot be fetched taken off the feed list: every other feed
\* contributes its entries and the failing one contributes nothing.
C7_FetchFailureIsolated ==
  (/\ op = "collect"
   /\ _config.loaded
   /\ feedparser
   /\ \E i \in 1..Len(ConfiguredFeeds) : ~Fetchable(ConfiguredFeeds[i])) =>
    /\ error = "none"
    /\ results = CollectFrom(DictPut(_config.dict, RssFeeds,
                                     JList(SelectSeq(ConfiguredFeeds, Fetchable))),
                             samples, feedparser)

\* an unreachable feed, then a reachable feed of two entries: "news" is the
\* two renderings, a blank line, and the local text
C7_Witness ==
  /\ op = "collect"
  /\ feedparser
  /\ ConfiguredFeeds = <<BadUrl, Ok2Url>>
  /\ News \in samples
  /\ HasKey(results, News)
  /\ ValueOf(results, News) =
       <<"T","o","1"," ","S","o","1","\n","\n","T","o","2"," ","S","o","2","\n","\n">>
         \o SampleText(News)

\* C8: once an Aggregator has loaded its configuration, no step changes the
\* cached configuration, and every collect() returns, without an error, what
\* the cached configuration gives, whatever the configuration file has become.
C8_ConfigLoadedOnce ==
  [][ _config.loaded =>
        /\ _config' = _config
        /\ op' = "collect" =>
             /\ error' = "none"
             /\ results' = CollectFrom(_config.dict, samples', feedparser) ]_vars

\* a collect() that returned from the cache although the configuration file
\* is no longer the one that was loaded
C8_Witness ==
  /\ op = "collect"
  /\ error = "none"
  /\ _config.loaded
  /\ config_file.kind = "object"
  /\ Normalise(config_file.data, EmptyDict) # _config.dict
  /\ results # <<>>

\* what collect() returns when news, email and report are enabled and the
\* feed list is empty
DefaultResults(present) ==
  << <<News, IF News \in present THEN SampleText(News) ELSE <<>> >>,
     <<Email, IF Email \in present THEN SampleText(Email) ELSE <<>> >>,
     <<Report, IF Report \in present THEN SampleText(Report) ELSE <<>> >> >>

IsBlankRun(s, i, j) ==
  /\ 1 <= i /\ i < j /\ j <= Len(s)
  /\ \A n \in i..j : s[n] = "\n"
  /\ (i = 1 \/ s[i - 1] # "\n")
  /\ (j = Len(s) \/ s[j + 1] # "\n")

\* s holds a run of two or more newlines
HasBlankRun(s) == \E i \in 1..(Len(s) - 1) : s[i] = "\n" /\ s[i + 1] = "\n"

\* the places <<a, b>> of the stretches of s that lie between its runs of
\* two or more newlines and hold more than whitespace
SectionSpans(s) ==
  { sp \in (1..Len(s)) \X (1..Len(s)) :
      /\ sp[1] <= sp[2]
      /\ (sp[1] = 1 \/ \E i \in 1..Len(s) : IsBlankRun(s, i, sp[1] - 1))
      /\ (sp[2] = Len(s) \/ \E j \in 1..Len(s) : IsBlankRun(s, sp[2] + 1, j))
      /\ ~(\E i, j \in sp[1]..sp[2] : IsBlankRun(s, i, j))
      /\ Strip(SubSeq(s, sp[1], sp[2])) # <<>> }

\* the n-th of these stretches in the order of the text, stripped
NthSection(s, n) ==
  LET spans == SectionSpans(s)
      sp == CHOOSE q \in spans : Cardinality({ p \in spans : p[1] < q[1] }) = n - 1
  IN  Strip(SubSeq(s, sp[1], sp[2]))

\* "Section n: " and the general summary of the n-th stretch, for every
\* stretch, with a blank line between one and the next
LabelledSections(s, n_sentences) ==
  Join([n \in 1..Cardinality(SectionSpans(s)) |->
          <<"S","e","c","t","i","o","n"," ">> \o Decimal(n) \o <<":", " ">>
            \o summarize_general(NthSection(s, n), n_sentences)],
       <<"\n", "\n">>)

\* C11 as stated: summarize_report gives one labelled summary per non-empty
\* section between runs of two or more newlines, labelled "Section 1" to
\* "Section N" in the order of the text and joined by blank lines; and every
\* text with no run of two or more newlines gives exactly one section,
\* labelled "Section 1".
C11_ReportSections ==
  op = "report" =>
    /\ out = LabelledSections(text, k)
    /\ ~HasBlankRun(text) =>
         /\ Cardinality(SectionSpans(text)) = 1
         /\ out = <<"S","e","c","t","i","o","n"," ","1",":"," ">>
                    \o summarize_general(Strip(text), k)

\* C11, amended: summarize_report gives one labelled summary per non-empty
\* section between runs of two or more newlines, labelled "Section 1" to
\* "Section N" in the order of the text and joined by blank lines; every
\* text with no run of two or more newlines that holds more than whitespace
\* gives exactly one section, labelled "Section 1"; an empty or
\* whitespace-only text gives no section and the empty summary.
C11_ReportSectionsOfNonBlankText ==
  op = "report" =>
    /\ out = LabelledSections(text, k)
    /\ (~HasBlankRun(text) /\ Strip(text) # <<>>) =>
         /\ Cardinality(SectionSpans(text)) = 1
         /\ out = <<"S","e","c","t","i","o","n"," ","1",":"," ">>
                    \o summarize_general(Strip(text), k)
    /\ Strip(text) = <<>> => out = <<>>

\* a report of two sections with a run of newlines between them
C11_Witness ==
  /\ op = "report"
  /\ k = 1
  /\ HasBlankRun(text)
  /\ Cardinality(SectionSpans(text)) = 2
  /\ Contains(out, <<"\n","\n","S","e","c","t","i","o","n"," ","2",":"," ">>)

\* the place of a key in the order news, email, report, factiva,
\* euromonitor, financial
KeyRank(key) ==
  LET order == Builtins \o Placeholders
  IN  CHOOSE n \in 1..Len(order) : order[n] = key

\* the cached configuration enables the placeholder key
EnablesPlaceholder(key) ==
  key \in DOMAIN _config.dict /\ PyBool(_config.dict[key])

\* C12: the keys of the mapping collect() returns stand in one fixed order:
\* the built-in sources that are present, in the order news, email, report,
\* then the enabled placeholder keys in the order factiva, euromonitor,
\* financial, each placeholder mapped to the empty string; no built-in key
\* stands after a built-in key that follows it in that order, or after a
\* placeholder key.
C12_KeysInFixedOrder ==
  (op = "collect" /\ error = "none") =>
    LET keys == Keys(results)
    IN  /\ \A i \in 1..Len(keys) :
             \E n \in 1..Len(Builtins \o Placeholders) :
               (Builtins \o Placeholders)[n] = keys[i]
        /\ \A i, j \in 1..Len(keys) : i < j => KeyRank(keys[i]) < KeyRank(keys[j])
        /\ \A n \in 1..Len(Placeholders) :
             /\ HasKey(results, Placeholders[n]) <=> EnablesPlaceholder(Placeholders[n])
             /\ HasKey(results, Placeholders[n]) => ValueOf(results, Placeholders[n]) = <<>>

\* the larger of two integers
Max(a, b) == IF a >= b THEN a ELSE b

\* no backend gave the summary of a printed line
LineBackendMiss(line) ==
  \/ ~Truthy(backend)
  \/ Strip(Lower(backend)) \notin RegisteredBackends
  \/ line.called = Raise
  \/ ~Truthy(line.called)

\* C13: when run() is given --max-sentences m and no backend produces the
\* summary of a source, the summary printed for the source is the one of
\* m sentences: summarize_email with max(m - 1, 1) sentences for the source
\* email, summarize_report with max(m - 1, 1) sentences per section for
\* report, and summarize_general with m sentences for every other source.
C13_RunHonoursMaxSentences ==
  (op = "run" /\ error = "none") =>
    \A i \in 1..Len(printed) :
      (~printed[i].warning /\ LineBackendMiss(printed[i])) =>
        LET source_name == printed[i].source
            source_text == ValueOf(results, source_name)
        IN  printed[i].summary =
              IF Lower(source_name) = Email
              THEN summarize_email(source_text, Max(k - 1, 1))
              ELSE IF Lower(source_name) = Report
              THEN summarize_report(source_text, Max(k - 1, 1))
              ELSE summarize_general(source_text, k)

\* the calls of the finished request to a capability, and to a heuristic
BackendCalls == SelectSeq(calls, LAMBDA call : call.kind = "backend")

HeuristicCalls == SelectSeq(calls, LAMBDA call : call.kind = "heuristic")

\* what the heuristic of a call gives for the text of the request
HeuristicResult(call) ==
  IF call.name = Email THEN summarize_email(text, call.sentences)
  ELSE IF call.name = Report THEN summarize_report(text, call.sentences)
  ELSE summarize_general(text, call.sentences)

\* the capability was invoked and gave a non-empty string
BackendHit ==
  /\ BackendCalls # <<>>
  /\ called \notin {None, Raise, <<>>}

\* C14: in every summarise request the capability is invoked at most once,
\* and only when a non-empty backend identifier was supplied; if that one
\* attempt gives a non-empty string, summarise returns exactly that string
\* and runs no heuristic; otherwise it runs exactly one heuristic and returns
\* its result; so every request ends in a returned string and never in an
\* exception.
C14_OneAttemptThenOneHeuristic ==
  op = "summarise" =>
    /\ Len(BackendCalls) <= 1
    /\ BackendCalls # <<>> => Truthy(backend)
    /\ BackendHit => (out = called /\ HeuristicCalls = <<>>)
    /\ ~BackendHit => (Len(HeuristicCalls) = 1 /\ out = HeuristicResult(HeuristicCalls[1]))
    /\ ~raised
    /\ out \notin {None, Raise}

\* a request whose capability was invoked once and missed, after which the
\* email heuristic ran
C14_Witness ==
  /\ op = "summarise"
  /\ Len(BackendCalls) = 1
  /\ called = <<>>
  /\ Len(HeuristicCalls) = 1
  /\ HeuristicCalls[1].name = Email
  /\ Contains(out, ActionItemsHeader)

====
